---- MODULE Spec2Model ----
(***************************************************************************)
(* Model of embedding_based/metrics.py: the Average and Extrema embedding  *)
(* metrics at sentence and corpus level.                                   *)
(*                                                                         *)
(* Real numbers are exact rationals [n |-> numerator, d |-> denominator]   *)
(* in lowest terms with d > 0; d = 0 encodes the floating-point specials   *)
(* (0/0 is NaN, +-1/0 is +-Inf).  The embedding table and the sentences    *)
(* are chosen so that every norm taken by the code is a rational number.   *)
(* A standard deviation is kept as q * sqrt(r) with q, r rational.         *)
(***************************************************************************)
EXTENDS Integers, Sequences, FiniteSets, TLC

\* ------------------------------------------------------------------ bounds
MaxPairs == 3

MaxVectors == 2

\* -------------------------------------------------------------- rationals
Abs(x) == IF x < 0 THEN -x ELSE x

Sign(x) == IF x < 0 THEN -1 ELSE IF x > 0 THEN 1 ELSE 0

RECURSIVE Gcd(_, _)
Gcd(a, b) == IF b = 0 THEN a ELSE Gcd(b, a % b)

NaN == [n |-> 0, d |-> 0]

Rat(n, d) ==
    IF d = 0 THEN [n |-> Sign(n), d |-> 0]
    ELSE LET g == Gcd(Abs(n), Abs(d))
         IN  [n |-> Sign(d) * (n \div g), d |-> Abs(d) \div g]

Num(k) == [n |-> k, d |-> 1]

Zero == Num(0)

One == Num(1)

IsNaN(a) == a.d = 0 /\ a.n = 0

IsFinite(a) == a.d > 0

RAdd(a, b) ==
    IF IsNaN(a) \/ IsNaN(b) THEN NaN
    ELSE IF a.d = 0 /\ b.d = 0 THEN (IF a.n = b.n THEN a ELSE NaN)
    ELSE IF a.d = 0 THEN a
    ELSE IF b.d = 0 THEN b
    ELSE Rat(a.n * b.d + b.n * a.d, a.d * b.d)

RNeg(a) == [n |-> -a.n, d |-> a.d]

RSub(a, b) == RAdd(a, RNeg(b))

RMul(a, b) ==
    IF IsNaN(a) \/ IsNaN(b) THEN NaN
    ELSE Rat(a.n * b.n, a.d * b.d)

RDiv(a, b) ==
    IF IsNaN(a) \/ IsNaN(b) THEN NaN
    ELSE IF b.d = 0 THEN (IF a.d = 0 THEN NaN ELSE Zero)
    ELSE IF b.n = 0 THEN Rat(a.n, 0)
    ELSE IF a.d = 0 THEN Rat(a.n * Sign(b.n), 0)
    ELSE Rat(a.n * b.d, a.d * b.n)

\* a < b as IEEE comparison: false when either side is NaN
RLess(a, b) ==
    /\ ~IsNaN(a)
    /\ ~IsNaN(b)
    /\ IF a.d = 0 /\ b.d = 0 THEN a.n < b.n
       ELSE IF a.d = 0 THEN a.n < 0
       ELSE IF b.d = 0 THEN b.n > 0
       ELSE a.n * b.d < b.n * a.d

RGeq(a, b) == ~IsNaN(a) /\ ~IsNaN(b) /\ ~RLess(a, b)

RAbs(a) == [n |-> Abs(a.n), d |-> a.d]

\* exact integer square root; defined on perfect squares only
ISqrt(k) == CHOOSE s \in 0..k : s * s = k

RSqrt(a) ==
    IF IsNaN(a) \/ a.n < 0 THEN NaN
    ELSE IF a.d = 0 THEN a
    ELSE [n |-> ISqrt(a.n), d |-> ISqrt(a.d)]

\* ------------------------------------------------------------------ numpy
RECURSIVE SumSeq(_)
SumSeq(s) == IF s = <<>> THEN Zero ELSE RAdd(Head(s), SumSeq(Tail(s)))

VAdd(u, v) == [k \in 1..Len(u) |-> RAdd(u[k], v[k])]

VDiv(u, r) == [k \in 1..Len(u) |-> RDiv(u[k], r)]

Dot(u, v) == SumSeq([k \in 1..Len(u) |-> RMul(u[k], v[k])])

\* square of np.linalg.norm of a 1D array
Norm2(u) == Dot(u, u)

\* np.linalg.norm of a 1D array
Norm(u) == RSqrt(Norm2(u))

\* square of np.linalg.norm of a list of 1D arrays (Frobenius norm)
FrobeniusNorm2(vs) == SumSeq([k \in 1..Len(vs) |-> Norm2(vs[k])])

\* _EPSILON = 0.00000000001 = 10^-EPSILON_EXP
EPSILON_EXP == 11

RECURSIVE DivPow10(_, _)
DivPow10(x, k) == IF k = 0 THEN x ELSE DivPow10(x \div 10, k - 1)

\* sqrt(sq) < _EPSILON for a non-negative sq, decided as sq < _EPSILON^2
NormBelowEpsilon(sq) ==
    /\ IsFinite(sq)
    /\ sq.n <= DivPow10(sq.d - 1, 2 * EPSILON_EXP)

\* ------------------------------------------------- surds: q * sqrt(r), r >= 0
SurdNaN == [q |-> NaN, r |-> NaN]

\* zero has the one representation 0 * sqrt(0)
Surd(q, r) ==
    IF IsNaN(q) \/ IsNaN(r) THEN SurdNaN
    ELSE IF q = Zero \/ r = Zero THEN [q |-> Zero, r |-> Zero]
    ELSE [q |-> q, r |-> r]

SurdIsNaN(s) == IsNaN(s.q) \/ IsNaN(s.r)

\* np.sqrt of a rational, kept symbolic
SurdSqrt(a) == IF IsNaN(a) \/ a.n < 0 THEN SurdNaN ELSE Surd(One, a)

SurdMul(a, s) == IF SurdIsNaN(s) THEN SurdNaN ELSE Surd(RMul(a, s.q), s.r)

SurdDiv(s, a) == IF SurdIsNaN(s) THEN SurdNaN ELSE Surd(RDiv(s.q, a), s.r)

\* s >= 0 as IEEE comparison: false for NaN
SurdGeqZero(s) == ~SurdIsNaN(s) /\ RGeq(s.q, Zero)

\* --------------------------------------------------------- Python values
Ok(type, value) == [status |-> "ok", type |-> type, value |-> value]

Raise(exception) == [status |-> exception, type |-> "exception", value |-> <<>>]

NoResult == [status |-> "none", type |-> "none", value |-> <<>>]

\* a list argument with the run-time type of its elements
ListOf(type, list) == [type |-> type, val |-> list]

\* ------------------------------------------------------------ embeddings
Tokens == {"a", "b", "c", "d", "x"}

\* the KeyedVectors: "x" is out of vocabulary
EmbeddingTable ==
    [w \in {"a", "b", "c", "d"} |->
        CASE w = "a" -> <<Num(1), Num(0)>>
          [] w = "b" -> <<Num(0), Num(1)>>
          [] w = "c" -> <<Num(-1), Num(0)>>
          [] w = "d" -> <<Num(3), Num(4)>>]

vector_size == 2

\* np.zeros((embeddings.vector_size,))
Zeros == [k \in 1..vector_size |-> Zero]

\* sentences given to the corpus-level functions
CorpusSentences == {<<"x">>, <<"a">>, <<"d">>, <<"a", "c">>}

\* sentences given to the sentence-level functions
Sentences == CorpusSentences \cup {<<>>, <<"b">>, <<"x", "b">>, <<"a", "a">>}

Corpora == UNION {[1..k -> CorpusSentences] : k \in 0..MaxPairs}

\* components of the vectors given to _get_extrema directly
ExtremaComponents == {-5, -1, 0, 1, 2, 3}

ExtremaVectors == {<<Num(x), Num(y)>> : x, y \in ExtremaComponents}

ExtremaLists == UNION {[1..k -> ExtremaVectors] : k \in 0..MaxVectors}

\* the words of a sentence that have an embedding, in order
RECURSIVE InVocabulary(_, _)
InVocabulary(sentence, emb) ==
    IF sentence = <<>> THEN <<>>
    ELSE IF Head(sentence) \in DOMAIN emb
         THEN <<Head(sentence)>> \o InVocabulary(Tail(sentence), emb)
         ELSE InVocabulary(Tail(sentence), emb)

\* ------------------------------------------------------- metric functions
\* _compute_statistics, np.mean
Mean(scores) == RDiv(SumSeq(scores), Num(Len(scores)))

\* _compute_statistics, np.std: sqrt(mean(abs(x - mean(x)) ** 2))
Std(scores) ==
    LET m == Mean(scores)
        sq == [k \in 1..Len(scores) |->
                  RMul(RSub(scores[k], m), RSub(scores[k], m))]
    IN  SurdSqrt(Mean(sq))

ComputeStatisticsWrongCount(scores) ==
    [mean |-> Mean(scores),
     ci   |-> SurdDiv(SurdMul(Rat(196, 100), Std(scores)),
                      Num(Len(scores) + 1)),
     std  |-> Std(scores)]

ComputeStatistics(scores) ==
    [mean |-> Mean(scores),
     ci   |-> SurdDiv(SurdMul(Rat(196, 100), Std(scores)), Num(Len(scores))),
     std  |-> Std(scores)]

CosineSimilarity(a, b) == RDiv(RDiv(Dot(a, b), Norm(a)), Norm(b))

\* An ndarray is [arr |-> its elements, owner |-> who holds its buffer]:
\* "fresh" for an array allocated by the call, a token for the array stored
\* in the KeyedVectors under that token.
Fresh(arr) == [arr |-> arr, owner |-> "fresh"]

Deref(ref, emb) == IF ref.owner = "fresh" THEN ref.arr ELSE emb[ref.owner]

\* ref /= r : the in-place division writes into the buffer ref points to
InPlaceDivide(ref, r, emb) ==
    LET q == VDiv(Deref(ref, emb), r)
    IN  [ref |-> [arr |-> q, owner |-> ref.owner],
         emb |-> IF ref.owner = "fresh" THEN emb
                 ELSE [emb EXCEPT ![ref.owner] = q]]

\* sum(embeddings[word] for word in sentence if word in embeddings): the
\* start value 0 makes every partial sum a newly allocated array
RECURSIVE SumVectors(_, _)
SumVectors(words, emb) ==
    IF words = <<>> THEN Zeros
    ELSE VAdd(emb[Head(words)], SumVectors(Tail(words), emb))

EmbeddingSumAliasing(sentence, emb) ==
    LET words == InVocabulary(sentence, emb)
        total == SumVectors(words, emb)
    IN  IF NormBelowEpsilon(Norm2(total)) THEN Fresh(Zeros)
        ELSE IF Len(words) = 1 THEN [arr |-> total, owner |-> words[1]]
        ELSE Fresh(total)

EmbeddingSum(sentence, emb) ==
    LET total == SumVectors(InVocabulary(sentence, emb), emb)
    IN  IF NormBelowEpsilon(Norm2(total)) THEN Fresh(Zeros)
        ELSE Fresh(total)

GetAverage(sentence, emb) ==
    LET total == Deref(EmbeddingSum(sentence, emb), emb)
    IN  VDiv(total, Norm(total))

average_sentence_level(hypothesis_sentence, reference_sentence, emb) ==
    Ok("float", CosineSimilarity(GetAverage(hypothesis_sentence, emb),
                                 GetAverage(reference_sentence, emb)))

\* lines 92-98: which of the three ways a pair of aggregates goes
AveragePairBranchNoReferenceGuard(X, Y) ==
    IF NormBelowEpsilon(Norm2(X)) THEN "skipped" ELSE "cosine"

AveragePairBranch(X, Y) ==
    IF NormBelowEpsilon(Norm2(X)) THEN "skipped"
    ELSE IF NormBelowEpsilon(Norm2(Y)) THEN "zero"
    ELSE "cosine"

\* one iteration of the loop of average_corpus_level
AverageCorpusPair(hypothesis, reference, emb) ==
    LET X == EmbeddingSum(hypothesis, emb)
        Y == EmbeddingSum(reference, emb)
        branch == AveragePairBranch(Deref(X, emb), Deref(Y, emb))
    IN  IF branch = "skipped"
        THEN [outcome |-> "skipped", appended |-> <<>>, emb |-> emb,
              divided |-> <<>>, cosine |-> <<>>]
        ELSE IF branch = "zero"
        THEN [outcome |-> "zero", appended |-> <<Zero>>, emb |-> emb,
              divided |-> <<>>, cosine |-> <<>>]
        ELSE LET x0 == Deref(X, emb)
                 dx == InPlaceDivide(X, Norm(x0), emb)
                 y0 == Deref(Y, dx.emb)
                 dy == InPlaceDivide(Y, Norm(y0), dx.emb)
                 a  == Deref(dx.ref, dy.emb)
                 b  == Deref(dy.ref, dy.emb)
             IN  [outcome |-> "cosine",
                  appended |-> <<CosineSimilarity(a, b)>>,
                  emb |-> dy.emb,
                  divided |-> <<x0, y0>>,
                  cosine |-> <<a, b>>]

RMax(a, b) == IF RLess(a, b) THEN b ELSE a

RMin(a, b) == IF RLess(b, a) THEN b ELSE a

\* np.max(vectors, axis=0)[k] and np.min(vectors, axis=0)[k]
RECURSIVE MaxOfColumn(_, _)
MaxOfColumn(vs, k) ==
    IF Len(vs) = 1 THEN vs[1][k]
    ELSE RMax(vs[1][k], MaxOfColumn(Tail(vs), k))

RECURSIVE MinOfColumn(_, _)
MinOfColumn(vs, k) ==
    IF Len(vs) = 1 THEN vs[1][k]
    ELSE RMin(vs[1][k], MinOfColumn(Tail(vs), k))

GetExtremaNoAbs(vectors) ==
    IF vectors.val = <<>> THEN Raise("ValueError")
    ELSE IF vectors.type = "str" THEN Raise("TypeError")
    ELSE Ok("ndarray",
            [k \in 1..Len(vectors.val[1]) |->
                LET min_v == MinOfColumn(vectors.val, k)
                    max_v == MaxOfColumn(vectors.val, k)
                IN  IF RLess(max_v, min_v) THEN min_v ELSE max_v])

\* _get_extrema: np.max of an empty list raises ValueError, of a list of
\* strings TypeError
GetExtrema(vectors) ==
    IF vectors.val = <<>> THEN Raise("ValueError")
    ELSE IF vectors.type = "str" THEN Raise("TypeError")
    ELSE Ok("ndarray",
            [k \in 1..Len(vectors.val[1]) |->
                LET min_v == MinOfColumn(vectors.val, k)
                    max_v == MaxOfColumn(vectors.val, k)
                IN  IF RLess(max_v, RAbs(min_v)) THEN min_v ELSE max_v])

MapToEmbeddings(words, emb) ==
    LET w == InVocabulary(words, emb)
    IN  [k \in 1..Len(w) |-> emb[w[k]]]

extrema_sentence_level(hypothesis_sentence, reference_sentence, emb) ==
    LET hypothesis == MapToEmbeddings(hypothesis_sentence, emb)
        reference == MapToEmbeddings(reference_sentence, emb)
        a == GetExtrema(ListOf("ndarray", hypothesis))
        b == GetExtrema(ListOf("ndarray", reference))
    IN  IF a.status # "ok" THEN a
        ELSE IF b.status # "ok" THEN b
        ELSE Ok("float", CosineSimilarity(a.value, b.value))

\* lines 166-170: which of the three ways a pair of vector lists goes
ExtremaPairBranch(X, Y) ==
    IF NormBelowEpsilon(FrobeniusNorm2(X)) THEN "skipped"
    ELSE IF NormBelowEpsilon(FrobeniusNorm2(Y)) THEN "zero"
    ELSE "cosine"

\* one iteration of the loop of extrema_corpus_level; line 172 hands the
\* token lists hypothesis and reference, not X and Y, to _get_extrema
ExtremaCorpusPair(hypothesis, reference, emb) ==
    LET X == MapToEmbeddings(hypothesis, emb)
        Y == MapToEmbeddings(reference, emb)
        branch == ExtremaPairBranch(X, Y)
    IN  IF branch = "skipped"
        THEN [outcome |-> "skipped", appended |-> <<>>, divided |-> <<>>,
              cosine |-> <<>>, raised |-> "none"]
        ELSE IF branch = "zero"
        THEN [outcome |-> "zero", appended |-> <<Zero>>, divided |-> <<>>,
              cosine |-> <<>>, raised |-> "none"]
        ELSE LET a == GetExtrema(ListOf("str", hypothesis))
                 b == GetExtrema(ListOf("str", reference))
             IN  IF a.status # "ok"
                 THEN [outcome |-> "raised", appended |-> <<>>,
                       divided |-> <<>>, cosine |-> <<>>,
                       raised |-> a.status]
                 ELSE IF b.status # "ok"
                 THEN [outcome |-> "raised", appended |-> <<>>,
                       divided |-> <<>>, cosine |-> <<>>,
                       raised |-> b.status]
                 ELSE [outcome |-> "cosine",
                       appended |-> <<CosineSimilarity(a.value, b.value)>>,
                       divided |-> <<>>,
                       cosine |-> <<a.value, b.value>>, raised |-> "none"]

\* greedy_match_sentence_level: the body is `pass`, the call returns None
greedy_match_sentence_level(hypothesis_sentence, reference_sentence, emb) ==
    Ok("NoneType", <<>>)

\* ------------------------------------------------------------ the program
VARIABLES
    embeddings,          \* the KeyedVectors: token -> stored vector
    pc,                  \* "loaded": module imported, nothing called yet;
                         \* "idle": between two calls; "loop": in the for
                         \* of a corpus-level call; "returned": a call ended
    fn,                  \* the function called last (or being executed)
    hypothesis_corpus,   \* arguments of the call
    reference_corpus,
    hypothesis_sentence,
    reference_sentence,
    vectors,
    scores,              \* the local list scores of a corpus-level call
    trace,               \* per pair processed so far: what the iteration did
    result               \* what the last call returned or raised

vars == <<embeddings, pc, fn, hypothesis_corpus, reference_corpus,
          hypothesis_sentence, reference_sentence, vectors, scores, trace,
          result>>

CorpusFns == {"average_corpus_level", "extrema_corpus_level"}

\* what an iteration leaves in trace
Entry(step) == [outcome |-> step.outcome, appended |-> step.appended,
                divided |-> step.divided, cosine |-> step.cosine]

Min(a, b) == IF a < b THEN a ELSE b

Init ==
    /\ embeddings = EmbeddingTable
    /\ pc = "loaded"
    /\ fn = "none"
    /\ hypothesis_corpus = <<>>
    /\ reference_corpus = <<>>
    /\ hypothesis_sentence = <<>>
    /\ reference_sentence = <<>>
    /\ vectors = <<>>
    /\ scores = <<>>
    /\ trace = <<>>
    /\ result = NoResult

\* a call of a sentence-level function with its arguments
SentenceCall(name, h, r, res) ==
    /\ fn' = name
    /\ hypothesis_sentence' = h
    /\ reference_sentence' = r
    /\ hypothesis_corpus' = <<>>
    /\ reference_corpus' = <<>>
    /\ vectors' = <<>>
    /\ scores' = <<>>
    /\ trace' = <<>>
    /\ result' = res
    /\ pc' = "returned"
    /\ UNCHANGED embeddings

AverageSentenceLevel ==
    /\ pc \in {"loaded", "idle"}
    /\ \E h \in Sentences, r \in Sentences :
        SentenceCall("average_sentence_level", h, r,
                     average_sentence_level(h, r, embeddings))

ExtremaSentenceLevel ==
    /\ pc \in {"loaded", "idle"}
    /\ \E h \in Sentences, r \in Sentences :
        SentenceCall("extrema_sentence_level", h, r,
                     extrema_sentence_level(h, r, embeddings))

GreedyMatchSentenceLevel ==
    /\ pc \in {"loaded", "idle"}
    /\ \E h \in Sentences, r \in Sentences :
        SentenceCall("greedy_match_sentence_level", h, r,
                     greedy_match_sentence_level(h, r, embeddings))

\* a direct call of _get_extrema
GetExtremaCall ==
    /\ pc \in {"loaded", "idle"}
    /\ \E vs \in ExtremaLists :
        /\ fn' = "_get_extrema"
        /\ vectors' = vs
        /\ hypothesis_sentence' = <<>>
        /\ reference_sentence' = <<>>
        /\ hypothesis_corpus' = <<>>
        /\ reference_corpus' = <<>>
        /\ scores' = <<>>
        /\ trace' = <<>>
        /\ result' = GetExtrema(ListOf("ndarray", vs))
        /\ pc' = "returned"
        /\ UNCHANGED embeddings

\* entry of a corpus-level function up to the first iteration
CorpusCall(name, hc, rc) ==
    /\ fn' = name
    /\ hypothesis_corpus' = hc
    /\ reference_corpus' = rc
    /\ hypothesis_sentence' = <<>>
    /\ reference_sentence' = <<>>
    /\ vectors' = <<>>
    /\ scores' = <<>>
    /\ trace' = <<>>
    /\ UNCHANGED embeddings

\* line 85: the assertion fails
AverageCorpusLevelAssertionError ==
    /\ pc \in {"loaded", "idle"}
    /\ \E hc \in Corpora, rc \in Corpora :
        /\ Len(hc) # Len(rc)
        /\ CorpusCall("average_corpus_level", hc, rc)
        /\ result' = Raise("AssertionError")
        /\ pc' = "returned"

\* lines 85-86: the assertion holds
AverageCorpusLevelEnter ==
    /\ pc \in {"loaded", "idle"}
    /\ \E hc \in Corpora, rc \in Corpora :
        /\ Len(hc) = Len(rc)
        /\ CorpusCall("average_corpus_level", hc, rc)
        /\ result' = NoResult
        /\ pc' = "loop"

\* lines 88-103: one iteration
AverageCorpusLevelPair ==
    /\ pc = "loop"
    /\ fn = "average_corpus_level"
    /\ Len(trace) < Min(Len(hypothesis_corpus), Len(reference_corpus))
    /\ \E step \in {AverageCorpusPair(hypothesis_corpus[Len(trace) + 1],
                                       reference_corpus[Len(trace) + 1],
                                       embeddings)} :
           /\ scores' = scores \o step.appended
           /\ trace' = Append(trace, Entry(step))
           /\ embeddings' = step.emb
    /\ UNCHANGED <<pc, fn, hypothesis_corpus, reference_corpus,
                   hypothesis_sentence, reference_sentence, vectors, result>>

\* line 105
AverageCorpusLevelReturn ==
    /\ pc = "loop"
    /\ fn = "average_corpus_level"
    /\ Len(trace) = Min(Len(hypothesis_corpus), Len(reference_corpus))
    /\ result' = Ok("tuple", ComputeStatistics(scores))
    /\ pc' = "returned"
    /\ UNCHANGED <<embeddings, fn, hypothesis_corpus, reference_corpus,
                   hypothesis_sentence, reference_sentence, vectors, scores,
                   trace>>

\* line 161: there is no assertion
ExtremaCorpusLevelEnter ==
    /\ pc \in {"loaded", "idle"}
    /\ \E hc \in Corpora, rc \in Corpora :
        /\ CorpusCall("extrema_corpus_level", hc, rc)
        /\ result' = NoResult
        /\ pc' = "loop"

\* lines 162-173: one iteration; zip stops at the shorter corpus
ExtremaCorpusLevelPair ==
    /\ pc = "loop"
    /\ fn = "extrema_corpus_level"
    /\ Len(trace) < Min(Len(hypothesis_corpus), Len(reference_corpus))
    /\ \E step \in {ExtremaCorpusPair(hypothesis_corpus[Len(trace) + 1],
                                       reference_corpus[Len(trace) + 1],
                                       embeddings)} :
           /\ scores' = scores \o step.appended
           /\ trace' = Append(trace, Entry(step))
           /\ IF step.outcome = "raised"
              THEN result' = Raise(step.raised) /\ pc' = "returned"
              ELSE UNCHANGED <<result, pc>>
    /\ UNCHANGED <<embeddings, fn, hypothesis_corpus, reference_corpus,
                   hypothesis_sentence, reference_sentence, vectors>>

\* line 175
ExtremaCorpusLevelReturn ==
    /\ pc = "loop"
    /\ fn = "extrema_corpus_level"
    /\ Len(trace) = Min(Len(hypothesis_corpus), Len(reference_corpus))
    /\ result' = Ok("tuple", ComputeStatistics(scores))
    /\ pc' = "returned"
    /\ UNCHANGED <<embeddings, fn, hypothesis_corpus, reference_corpus,
                   hypothesis_sentence, reference_sentence, vectors, scores,
                   trace>>

\* between two calls nothing of a call is kept but the embeddings
Discard ==
    /\ pc = "returned"
    /\ pc' = "idle"
    /\ fn' = "none"
    /\ hypothesis_corpus' = <<>>
    /\ reference_corpus' = <<>>
    /\ hypothesis_sentence' = <<>>
    /\ reference_sentence' = <<>>
    /\ vectors' = <<>>
    /\ scores' = <<>>
    /\ trace' = <<>>
    /\ result' = NoResult
    /\ UNCHANGED embeddings

Next ==
    \/ Discard
    \/ AverageSentenceLevel
    \/ ExtremaSentenceLevel
    \/ GreedyMatchSentenceLevel
    \/ GetExtremaCall
    \/ AverageCorpusLevelAssertionError
    \/ AverageCorpusLevelEnter
    \/ AverageCorpusLevelPair
    \/ AverageCorpusLevelReturn
    \/ ExtremaCorpusLevelEnter
    \/ ExtremaCorpusLevelPair
    \/ ExtremaCorpusLevelReturn

Spec == Init /\ [][Next]_vars

TypeOK ==
    /\ pc \in {"loaded", "idle", "loop", "returned"}
    /\ DOMAIN embeddings = DOMAIN EmbeddingTable
    /\ Len(trace) <= MaxPairs

\* ----------------------------------------------------------- the claims
\* the aligned pairs of the call in progress that have been processed
Processed == 1..Len(trace)

NoInVocabularyToken(sentence) == InVocabulary(sentence, EmbeddingTable) = <<>>

\* the zero-magnitude test the called function applies to one side
Degenerate(sentence) ==
    IF fn = "average_corpus_level"
    THEN NormBelowEpsilon(Norm2(SumVectors(
             InVocabulary(sentence, EmbeddingTable), EmbeddingTable)))
    ELSE NormBelowEpsilon(FrobeniusNorm2(
             MapToEmbeddings(sentence, EmbeddingTable)))

Skipped == Cardinality({i \in Processed : trace[i].outcome = "skipped"})

\* C1: in both corpus-level functions a pair whose reference sentence has
\* no in-vocabulary token is skipped and contributes no Score; if no
\* reference sentence has an in-vocabulary token, the Score list handed to
\* the statistics step is empty.
C1_ReferenceOOVSkipped ==
    fn \in CorpusFns =>
        /\ \A i \in Processed :
              NoInVocabularyToken(reference_corpus[i]) =>
                  trace[i].outcome = "skipped" /\ trace[i].appended = <<>>
        /\ (/\ pc = "returned"
            /\ result.status = "ok"
            /\ \A i \in DOMAIN reference_corpus :
                  NoInVocabularyToken(reference_corpus[i]))
           => scores = <<>>

\* C2: in both corpus-level functions a pair whose hypothesis sentence has
\* no in-vocabulary token while the reference aggregate is non-zero appends
\* exactly one Score equal to 0.
C2_HypothesisOOVScoresZero ==
    fn \in CorpusFns =>
        \A i \in Processed :
            (/\ NoInVocabularyToken(hypothesis_corpus[i])
             /\ ~NoInVocabularyToken(reference_corpus[i])
             /\ ~Degenerate(reference_corpus[i]))
            => trace[i].outcome = "zero" /\ trace[i].appended = <<Zero>>

\* C3: a corpus-level call with corpora of different lengths fails with the
\* assertion before any pair is scored and returns no statistics.
C3_LengthMismatchFails ==
    (fn \in CorpusFns /\ Len(hypothesis_corpus) # Len(reference_corpus)) =>
        /\ trace = <<>>
        /\ pc = "returned"
        /\ result.status = "AssertionError"

\* C4: for equal-length corpora both corpus-level functions return a
\* 3-tuple (mean, ci, std) with ci >= 0 and std >= 0.
C4_StatisticsNonNegative ==
    (/\ pc = "returned"
     /\ fn \in CorpusFns
     /\ Len(hypothesis_corpus) = Len(reference_corpus))
    => /\ result.status = "ok"
       /\ result.type = "tuple"
       /\ SurdGeqZero(result.value.ci)
       /\ SurdGeqZero(result.value.std)

\* C5: greedy_match_sentence_level returns a number in [-1, 1], and 1.0 for
\* identical single-token sentences with a non-zero embedding.
C5_GreedyMatchScore ==
    (pc = "returned" /\ fn = "greedy_match_sentence_level"
     /\ ~NoInVocabularyToken(hypothesis_sentence)
     /\ ~NoInVocabularyToken(reference_sentence))
    => /\ result.status = "ok"
       /\ result.type = "float"
       /\ RGeq(result.value, Num(-1))
       /\ RGeq(One, result.value)
       /\ (Len(hypothesis_sentence) = 1
           /\ hypothesis_sentence = reference_sentence)
          => result.value = One

\* C6: during a corpus-level call no vector of norm below epsilon is divided
\* by its norm or passed to the cosine similarity, and the cosine step is
\* reached only for pairs both of whose aggregates are non-degenerate.
C6_NoDegenerateDivision ==
    fn \in CorpusFns =>
        \A i \in Processed :
            /\ \A k \in DOMAIN trace[i].divided :
                  ~NormBelowEpsilon(Norm2(trace[i].divided[k]))
            /\ \A k \in DOMAIN trace[i].cosine :
                  ~NormBelowEpsilon(Norm2(trace[i].cosine[k]))
            /\ trace[i].outcome = "cosine" =>
                  /\ ~Degenerate(hypothesis_corpus[i])
                  /\ ~Degenerate(reference_corpus[i])

\* C6 witness: a pair whose reference tokens cancel to a zero sum was kept
\* away from the cosine, another pair of the same call reached it
C6_Witness ==
    /\ fn = "average_corpus_level"
    /\ \E i, j \in Processed :
          /\ trace[i].outcome = "cosine"
          /\ trace[i].divided # <<>>
          /\ reference_corpus[j] = <<"a", "c">>
          /\ hypothesis_corpus[j] = <<"a">>
          /\ trace[j].outcome = "zero"

\* the Score a sentence-level function gives a pair
SentenceScore(i) ==
    IF fn = "average_corpus_level"
    THEN average_sentence_level(hypothesis_corpus[i], reference_corpus[i],
                                EmbeddingTable)
    ELSE extrema_sentence_level(hypothesis_corpus[i], reference_corpus[i],
                                EmbeddingTable)

\* C7: for a pair with both sides non-degenerate the Score appended by a
\* corpus-level function is the Score of its sentence-level function.
C7_CorpusScoreIsSentenceScore ==
    fn \in CorpusFns =>
        \A i \in Processed :
            (/\ ~Degenerate(hypothesis_corpus[i])
             /\ ~Degenerate(reference_corpus[i]))
            => /\ SentenceScore(i).status = "ok"
               /\ trace[i].appended = <<SentenceScore(i).value>>

Column(k) == {vectors[j][k] : j \in DOMAIN vectors}

IsMinOf(m, S) == m \in S /\ \A x \in S : ~RLess(x, m)

IsMaxOf(m, S) == m \in S /\ \A x \in S : ~RLess(m, x)

\* C9: _get_extrema of a non-empty list takes, per dimension, the minimum
\* when |min| > max and the maximum otherwise (also on a tie), so that the
\* component chosen has the largest absolute value of its column.
C9_ExtremaPolicy ==
    (pc = "returned" /\ fn = "_get_extrema" /\ vectors # <<>>) =>
        /\ result.status = "ok"
        /\ Len(result.value) = vector_size
        /\ \A k \in 1..vector_size :
              \E lo, hi \in Column(k) :
                  /\ IsMinOf(lo, Column(k))
                  /\ IsMaxOf(hi, Column(k))
                  /\ result.value[k] =
                        IF RLess(hi, RAbs(lo)) THEN lo ELSE hi
        /\ \A k \in 1..vector_size : \A x \in Column(k) :
              ~RLess(RAbs(result.value[k]), RAbs(x))

\* C9 witness: [[3,-5],[2,1]] gives [3,-5]
C9_Witness ==
    /\ pc = "returned"
    /\ fn = "_get_extrema"
    /\ vectors = <<<<Num(3), Num(-5)>>, <<Num(2), Num(1)>>>>
    /\ result.value = <<Num(3), Num(-5)>>

\* C10: no call changes a vector held by the embedding lookup.
C10_EmbeddingsUnchanged == embeddings = EmbeddingTable

\* C10 witness: average_corpus_level has normalized in place the aggregate
\* of the single-token sentence ["d"], which equals the stored vector of "d"
C10_Witness ==
    /\ fn = "average_corpus_level"
    /\ \E i \in Processed :
          /\ hypothesis_corpus[i] = <<"d">>
          /\ trace[i].outcome = "cosine"
          /\ trace[i].divided[1] = EmbeddingTable["d"]
          /\ trace[i].cosine[1] # EmbeddingTable["d"]

====
